---- MODULE Spec2Model ----
(***************************************************************************)
(* vanish-link: self-destructing links.                                    *)
(*                                                                         *)
(* Spec        the link store behind the worker's routes (create, consume, *)
(*             status, delete, scheduled cleanup) with MaxConc concurrent  *)
(*             consume handlers on one token, interleaved at their awaits. *)
(* SeqSpec     the same routes over two tokens, each request served to its *)
(*             end before the next one starts.                             *)
(* FaultSpec   the routes in front of a store some of whose statements     *)
(*             reject.                                                     *)
(* LiveSpec    the routes and the cleanup on one token while the clock     *)
(*             runs past every TTL, the cleanup being run again and again. *)
(* CryptoSpec  one vanishEncrypt followed by one vanishDecrypt of its      *)
(*             result, over plaintexts of up to MaxLen code units.         *)
(* IdSpec      one call of generateId, the random bytes it draws and the   *)
(*             token it returns.                                           *)
(* ClientSpec  the create page, the viewer page and the CLI in front of    *)
(*             the worker, following one link from creation to redemption. *)
(***************************************************************************)
EXTENDS Integers, Sequences, FiniteSets, TLC

(***************************************************************************)
(* Bounds of the model and constants of the program.                       *)
(***************************************************************************)
MaxConc == 2
MaxReq == 3
MaxTicks == 3
TicksPerSec == 2
MaxLen == 2
MaxTries == 2
MaxIdLen == 2
MaxSecs == 2
MsPerSec == 1000
DefaultViews == 1
DefaultTtl == 3600
DefaultIdLen == 12

TickMs == MsPerSec \div TicksPerSec
Ids == {"a", "b"}
RaceIds == {"a"}
Reqs == 1..(IF MaxConc > MaxReq THEN MaxConc ELSE MaxReq)
ConcReqs == 1..MaxConc
SeqReqs == 1..MaxReq

\* Text is a sequence of numbers throughout: a base64 string is a sequence of
\* digits 0..63.  Two base64 strings a caller may post as ciphertext:
Ct1 == <<16, 17, 18, 19>>
Ct2 == <<20, 21, 22, 23>>

\* The JSON bodies a caller posts to the create route; 0 and the empty text
\* are the falsy values of a field, and a field may be missing altogether.
Body(c, v, t, pp) ==
    [ciphertext |-> c, views |-> v, ttl_seconds |-> t, password_protected |-> pp]

Bodies ==
    { Body(Ct1, 1, 1, FALSE), Body(Ct2, 2, 1, TRUE),
      Body(<<>>, 1, 1, FALSE), Body(Ct2, -1, -1, FALSE),
      [content |-> Ct1, views |-> 0, ttl_seconds |-> 0] }

VARIABLES
    links,    \* the links table: a function from the ids present to their rows
    now,      \* the wall clock, in milliseconds
    req,      \* the consume handlers in flight: position and local `link`
    last,     \* the response most recently sent by the worker
    served,   \* history: per id, the consume requests answered with ciphertext
    removed,  \* history: the ids some row of which was deleted or swept
    gone,     \* history: the ids whose first record, not removed so far, had a
              \* consume answered Expired while no other consume was in flight
    cr,       \* one encryption followed by one decryption: inputs and results
    gen,      \* one call of generateId: arguments, random bytes and result
    cl,       \* the reading client (viewer page or `vanish read`) in its attempt
    sent,     \* the request the latest step sent to the worker, and what its
              \* sender held
    share     \* the link most recently handed to a creating caller

storeVars == <<links, now, req, last, served, removed, gone>>
clientVars == <<cl, sent, share>>
vars == <<links, now, req, last, served, removed, gone, cr, gen, cl, sent, share>>

(***************************************************************************)
(* Rows, and the values a handler holds.                                   *)
(***************************************************************************)
NoRow ==
    [content |-> <<>>, password |-> "null", views_remaining |-> 0, views_total |-> 0, ttl_seconds |-> 0,
     password_protected |-> FALSE, created_at |-> 0]

NoResp ==
    [op |-> "none", id |-> "", status |-> 0, ciphertext |-> <<>>, views_remaining |-> 0,
     views_total |-> 0, burned |-> FALSE, password_protected |-> FALSE, n |-> 0]

IdleReq == [pc |-> "idle", id |-> "", link |-> NoRow]
DoneReq == [pc |-> "done", id |-> "", link |-> NoRow]

\* body.views || 1, body.ttl_seconds || 3600: a falsy value takes the default
OrDefault(v, d) == IF v = 0 THEN d ELSE v

\* body.f, with the falsy value d where the body has no field f
Field(body, f, d) == IF f \in DOMAIN body THEN body[f] ELSE d

\* datetime('now'): the clock cut to whole seconds
datetimeNow(t) == t \div MsPerSec

(***************************************************************************)
(* db.ts                                                                   *)
(***************************************************************************)
\* (a variant of createLink whose INSERT replaces the table's other rows)
createLinkAlone(db, params, t) ==
    (params.id :> [content |-> params.content,
                   password |-> params.password,
                   views_remaining |-> params.views_remaining,
                   views_total |-> params.views_total,
                   ttl_seconds |-> params.ttl_seconds,
                   password_protected |-> params.password_protected,
                   created_at |-> datetimeNow(t)])

createLink(db, params, t) ==
    (params.id :> [content |-> params.content,
                   password |-> params.password,
                   views_remaining |-> params.views_remaining,
                   views_total |-> params.views_total,
                   ttl_seconds |-> params.ttl_seconds,
                   password_protected |-> params.password_protected,
                   created_at |-> datetimeNow(t)]) @@ db

getLink(db, id) == IF id \in DOMAIN db THEN db[id] ELSE NoRow

\* (a variant of burnLink that gives a row out of views its budget back)
burnLinkRefill(db, id) ==
    [i \in DOMAIN db |->
        IF i = id
        THEN [db[i] EXCEPT !.views_remaining = IF @ <= 0 THEN db[i].views_total ELSE @ - 1]
        ELSE db[i]]

\* (a variant of burnLink that also empties the content of a row out of views)
burnLinkAndWipe(db, id) ==
    [i \in DOMAIN db |->
        IF i = id
        THEN [db[i] EXCEPT !.views_remaining = @ - 1,
                           !.content = IF db[i].views_remaining <= 1 THEN <<>> ELSE @]
        ELSE db[i]]

\* (a variant of burnLink that removes the row once it has no view left)
burnLinkAndReap(db, id) ==
    [i \in {j \in DOMAIN db : j # id \/ db[j].views_remaining > 1} |->
        IF i = id THEN [db[i] EXCEPT !.views_remaining = @ - 1] ELSE db[i]]

burnLink(db, id) ==
    [i \in DOMAIN db |->
        IF i = id THEN [db[i] EXCEPT !.views_remaining = @ - 1] ELSE db[i]]

\* (a variant of deleteLink whose DELETE spares a row out of views)
deleteLinkLive(db, id) ==
    [i \in {j \in DOMAIN db : j # id \/ db[j].views_remaining <= 0} |-> db[i]]

deleteLink(db, id) == [i \in DOMAIN db \ {id} |-> db[i]]

(***************************************************************************)
(* cleanup.ts                                                              *)
(***************************************************************************)
\* (a variant of sweepDead without the TTL half of the WHERE clause)
sweepDeadByViews(row, t) == row.views_remaining <= 0

sweepDead(row, t) ==
    \/ row.created_at + row.ttl_seconds < datetimeNow(t)
    \/ row.views_remaining <= 0

\* (a variant of cleanupExpired whose DELETE stops after one row)
cleanupExpiredOne(db, t) ==
    LET dead == {j \in DOMAIN db : sweepDead(db[j], t)}
    IN  IF dead = {} THEN db
        ELSE [i \in DOMAIN db \ {CHOOSE j \in dead : TRUE} |-> db[i]]

cleanupExpired(db, t) ==
    [i \in {j \in DOMAIN db : ~sweepDead(db[j], t)} |-> db[i]]

(***************************************************************************)
(* The consume route's test and the worker's answers.                      *)
(***************************************************************************)
\* (a variant of isDead that takes a counter below zero for views left)
isDeadAtZero(link, t) ==
    \/ t > link.created_at * MsPerSec + link.ttl_seconds * MsPerSec
    \/ link.views_remaining = 0

\* (a variant of isDead that expires a link one instant early)
isDeadAtBoundary(link, t) ==
    \/ t >= link.created_at * MsPerSec + link.ttl_seconds * MsPerSec
    \/ link.views_remaining <= 0

isDead(link, t) ==
    \/ t > link.created_at * MsPerSec + link.ttl_seconds * MsPerSec
    \/ link.views_remaining <= 0

errorResp(op, id, code) == [NoResp EXCEPT !.op = op, !.id = id, !.status = code]

\* (a variant of uncaught in which the handler catches and answers expired)
caughtAsGone(op, id) == errorResp(op, id, 410)

\* a D1 statement rejects: no line of fetch catches it, the handler ends by
\* the exception and the runtime answers with a server error
uncaught(op, id) == errorResp(op, id, 500)

\* (a variant of consumeOk that reports the counter as read, before the decrement)
consumeOkStale(id, link) ==
    [NoResp EXCEPT !.op = "consume", !.id = id, !.status = 200,
                   !.ciphertext = link.content,
                   !.views_remaining = link.views_remaining,
                   !.burned = (link.views_remaining <= 0),
                   !.password_protected = link.password_protected]

consumeOk(id, link) ==
    [NoResp EXCEPT !.op = "consume", !.id = id, !.status = 200,
                   !.ciphertext = link.content,
                   !.views_remaining = link.views_remaining - 1,
                   !.burned = (link.views_remaining - 1 <= 0),
                   !.password_protected = link.password_protected]

createOk(id, views, ttl, pp) ==
    [NoResp EXCEPT !.op = "create", !.id = id, !.status = 200,
                   !.views_remaining = views, !.n = ttl, !.password_protected = pp]

statusOk(id, link) ==
    [NoResp EXCEPT !.op = "status", !.id = id, !.status = 200,
                   !.views_remaining = link.views_remaining,
                   !.views_total = link.views_total,
                   !.password_protected = link.password_protected,
                   !.n = link.created_at + link.ttl_seconds]

(***************************************************************************)
(* The routes, each run from its first line to its answer: the table left  *)
(* behind and the response sent.  id is the value generateId() draws.      *)
(***************************************************************************)
\* (a variant of createRoute whose INSERT replaces a row of the same id)
createRouteReplace(db, t, id, body) ==
    LET ciphertext == IF Field(body, "ciphertext", <<>>) # <<>>
                      THEN body.ciphertext ELSE Field(body, "content", <<>>)
        views == OrDefault(Field(body, "views", 0), DefaultViews)
        ttl   == OrDefault(Field(body, "ttl_seconds", 0), DefaultTtl)
        pp    == Field(body, "password_protected", FALSE)
    IN  IF ciphertext = <<>>
        THEN [db |-> db, resp |-> errorResp("create", "", 400)]
        ELSE [db |-> createLink(deleteLink(db, id),
                                [id |-> id, content |-> ciphertext,
                                 password |-> "null",
                                 views_remaining |-> views, views_total |-> views,
                                 ttl_seconds |-> ttl, password_protected |-> pp], t),
              resp |-> createOk(id, views, ttl, pp)]

createRoute(db, t, id, body) ==
    LET ciphertext == IF Field(body, "ciphertext", <<>>) # <<>>
                      THEN body.ciphertext ELSE Field(body, "content", <<>>)
        views == OrDefault(Field(body, "views", 0), DefaultViews)
        ttl   == OrDefault(Field(body, "ttl_seconds", 0), DefaultTtl)
        pp    == Field(body, "password_protected", FALSE)
    IN  IF ciphertext = <<>>
        THEN [db |-> db, resp |-> errorResp("create", "", 400)]
        ELSE IF id \in DOMAIN db       \* id TEXT PRIMARY KEY: the insert throws
        THEN [db |-> db, resp |-> errorResp("create", "", 500)]
        ELSE [db |-> createLink(db, [id |-> id, content |-> ciphertext,
                                     password |-> "null",
                                     views_remaining |-> views, views_total |-> views,
                                     ttl_seconds |-> ttl, password_protected |-> pp], t),
              resp |-> createOk(id, views, ttl, pp)]

\* (a variant of consumeRoute that leaves the counter of a protected record
\* alone)
consumeRouteFreeIfProtected(db, t, id) ==
    LET link == getLink(db, id)
    IN  IF id \notin DOMAIN db
        THEN [db |-> db, resp |-> errorResp("consume", id, 404)]
        ELSE IF isDead(link, t)
        THEN [db |-> burnLink(db, id), resp |-> errorResp("consume", id, 410)]
        ELSE [db |-> IF link.password_protected THEN db ELSE burnLink(db, id),
              resp |-> consumeOk(id, link)]

consumeRoute(db, t, id) ==
    LET link == getLink(db, id)
    IN  IF id \notin DOMAIN db
        THEN [db |-> db, resp |-> errorResp("consume", id, 404)]
        ELSE IF isDead(link, t)
        THEN [db |-> burnLink(db, id), resp |-> errorResp("consume", id, 410)]
        ELSE [db |-> burnLink(db, id), resp |-> consumeOk(id, link)]

\* (a variant of statusRoute that answers not found for a row out of views)
statusRouteLiveOnly(db, id) ==
    IF id \in DOMAIN db /\ getLink(db, id).views_remaining > 0
    THEN statusOk(id, getLink(db, id))
    ELSE errorResp("status", id, 404)

statusRoute(db, id) ==
    IF id \in DOMAIN db THEN statusOk(id, getLink(db, id))
    ELSE errorResp("status", id, 404)

(***************************************************************************)
(* crypto.js: text, base64 and the two AES-GCM layers.                     *)
(*                                                                         *)
(* A string is a sequence of UTF-16 code units, a byte array a sequence of *)
(* numbers 0..255, a base64 string a sequence of digits 0..63 with 64 for  *)
(* the padding character.  AES-GCM and PBKDF2 are the platform's: they are *)
(* modelled as a stream cipher with a 16-byte tag over key, nonce and      *)
(* ciphertext, and as a fixed function of password and salt.               *)
(***************************************************************************)
SaltLen == 16
IvLen == 12
TagLen == 16
KeyLen == 32

RECURSIVE Sum(_)
Sum(s) ==
    IF Len(s) = 0 THEN 0
    ELSE IF Len(s) = 1 THEN s[1]
    ELSE Sum(SubSeq(s, 1, Len(s) \div 2)) + Sum(SubSeq(s, (Len(s) \div 2) + 1, Len(s)))

Drop(s, n) == SubSeq(s, n + 1, Len(s))
Take(s, n) == SubSeq(s, 1, IF n < Len(s) THEN n ELSE Len(s))

IsHigh(u) == u >= 55296 /\ u <= 56319
IsLow(u)  == u >= 56320 /\ u <= 57343
IsCont(b) == b >= 128 /\ b <= 191

Utf8(cp) ==
    IF cp < 128 THEN <<cp>>
    ELSE IF cp < 2048 THEN <<192 + (cp \div 64), 128 + (cp % 64)>>
    ELSE IF cp < 65536
         THEN <<224 + (cp \div 4096), 128 + ((cp \div 64) % 64), 128 + (cp % 64)>>
         ELSE <<240 + (cp \div 262144), 128 + ((cp \div 4096) % 64),
                128 + ((cp \div 64) % 64), 128 + (cp % 64)>>

\* new TextEncoder().encode(str): UTF-8, a lone surrogate becomes U+FFFD
RECURSIVE TextEncode(_)
TextEncode(str) ==
    IF str = <<>> THEN <<>>
    ELSE IF IsHigh(str[1]) /\ Len(str) >= 2 /\ IsLow(str[2])
         THEN Utf8(65536 + (str[1] - 55296) * 1024 + (str[2] - 56320))
                 \o TextEncode(Drop(str, 2))
    ELSE IF IsHigh(str[1]) \/ IsLow(str[1])
         THEN Utf8(65533) \o TextEncode(Tail(str))
         ELSE Utf8(str[1]) \o TextEncode(Tail(str))

\* the UTF-8 decoder, not fatal: a byte that starts no well-formed sequence
\* is replaced by U+FFFD
RECURSIVE Utf8Decode(_)
Utf8Decode(b) ==
    IF b = <<>> THEN <<>>
    ELSE IF b[1] < 128 THEN <<b[1]>> \o Utf8Decode(Tail(b))
    ELSE IF b[1] >= 194 /\ b[1] <= 223 /\ Len(b) >= 2 /\ IsCont(b[2])
         THEN <<(b[1] - 192) * 64 + (b[2] - 128)>> \o Utf8Decode(Drop(b, 2))
    ELSE IF /\ b[1] >= 224 /\ b[1] <= 239 /\ Len(b) >= 3
            /\ IsCont(b[2]) /\ IsCont(b[3])
            /\ (b[1] = 224 => b[2] >= 160)
            /\ (b[1] = 237 => b[2] <= 159)
         THEN <<(b[1] - 224) * 4096 + (b[2] - 128) * 64 + (b[3] - 128)>>
                 \o Utf8Decode(Drop(b, 3))
    ELSE IF /\ b[1] >= 240 /\ b[1] <= 244 /\ Len(b) >= 4
            /\ IsCont(b[2]) /\ IsCont(b[3]) /\ IsCont(b[4])
            /\ (b[1] = 240 => b[2] >= 144)
            /\ (b[1] = 244 => b[2] <= 143)
         THEN LET cp == (b[1] - 240) * 262144 + (b[2] - 128) * 4096
                          + (b[3] - 128) * 64 + (b[4] - 128) - 65536
              IN  <<55296 + (cp \div 1024), 56320 + (cp % 1024)>>
                     \o Utf8Decode(Drop(b, 4))
         ELSE <<65533>> \o Utf8Decode(Tail(b))

\* new TextDecoder().decode(bytes): ignoreBOM is false, a leading byte order
\* mark is dropped
TextDecode(b) ==
    IF Len(b) >= 3 /\ SubSeq(b, 1, 3) = <<239, 187, 191>>
    THEN Utf8Decode(Drop(b, 3))
    ELSE Utf8Decode(b)

\* btoa(String.fromCharCode(...bytes))
RECURSIVE btoa(_)
btoa(b) ==
    IF b = <<>> THEN <<>>
    ELSE IF Len(b) = 1 THEN <<(b[1] \div 4), (b[1] % 4) * 16, 64, 64>>
    ELSE IF Len(b) = 2
         THEN <<(b[1] \div 4), (b[1] % 4) * 16 + (b[2] \div 16), (b[2] % 16) * 4, 64>>
         ELSE <<(b[1] \div 4), (b[1] % 4) * 16 + (b[2] \div 16),
                (b[2] % 16) * 4 + (b[3] \div 64), (b[3] % 64)>> \o btoa(Drop(b, 3))

RECURSIVE FromDigits(_)
FromDigits(d) ==
    IF Len(d) >= 4
    THEN <<d[1] * 4 + (d[2] \div 16), (d[2] % 16) * 16 + (d[3] \div 4),
           (d[3] % 4) * 64 + d[4]>> \o FromDigits(Drop(d, 4))
    ELSE IF Len(d) = 3 THEN <<d[1] * 4 + (d[2] \div 16), (d[2] % 16) * 16 + (d[3] \div 4)>>
    ELSE IF Len(d) = 2 THEN <<d[1] * 4 + (d[2] \div 16)>>
    ELSE <<>>

\* Uint8Array.from(atob(s), c => c.charCodeAt(0)); atob throws on a string
\* that is not base64
atob(s) ==
    LET pad  == IF Len(s) % 4 = 0 /\ Len(s) >= 2 /\ s[Len(s)] = 64
                THEN (IF s[Len(s) - 1] = 64 THEN 2 ELSE 1) ELSE 0
        d    == SubSeq(s, 1, Len(s) - pad)
    IN  IF Len(d) % 4 = 1 \/ \E i \in 1..Len(d) : d[i] \notin 0..63
        THEN [ok |-> FALSE, err |-> "InvalidCharacterError", bytes |-> <<>>]
        ELSE [ok |-> TRUE, err |-> "", bytes |-> FromDigits(d)]

\* the key stream and the tag of AES-GCM under a key and a nonce
GcmPad(key, iv, i) == key[((i - 1) % Len(key)) + 1] + iv[((i - 1) % Len(iv)) + 1] + i

GcmTag(key, iv, ct) ==
    LET body == 5 * Sum(ct) + 7 * Len(ct)
    IN  [j \in 1..TagLen |->
            (31 * key[((j - 1) % Len(key)) + 1] + 17 * key[((j + 15) % Len(key)) + 1]
               + 13 * iv[((j - 1) % Len(iv)) + 1] + body + j) % 256]

GcmSeal(key, iv, data) ==
    LET ct == [i \in 1..Len(data) |-> (data[i] + GcmPad(key, iv, i)) % 256]
    IN  ct \o GcmTag(key, iv, ct)

\* the tag is checked before anything is released
GcmOpen(key, iv, sealed) ==
    IF Len(iv) = 0 \/ Len(sealed) < TagLen
    THEN [ok |-> FALSE, err |-> "OperationError", bytes |-> <<>>]
    ELSE LET ct  == SubSeq(sealed, 1, Len(sealed) - TagLen)
             tag == SubSeq(sealed, Len(sealed) - TagLen + 1, Len(sealed))
         IN  IF tag # GcmTag(key, iv, ct)
             THEN [ok |-> FALSE, err |-> "OperationError", bytes |-> <<>>]
             ELSE [ok |-> TRUE, err |-> "",
                   bytes |-> [i \in 1..Len(ct) |->
                                 (ct[i] + 256 * (3 + Len(ct)) - GcmPad(key, iv, i)) % 256]]

\* aesEncrypt: nonce || ciphertext || tag
aesEncrypt(plainBytes, cryptoKey, iv) == iv \o GcmSeal(cryptoKey, iv, plainBytes)

\* aesDecrypt: the first 12 bytes are the nonce
aesDecrypt(data, cryptoKey) == GcmOpen(cryptoKey, Take(data, IvLen), Drop(data, IvLen))

\* (a variant of deriveKey that leaves the password out of the derivation)
deriveKeyFromSalt(password, salt) ==
    [i \in 1..KeyLen |-> (11 * salt[((i - 1) % Len(salt)) + 1] + i) % 256]

\* deriveKey: PBKDF2 over the password's bytes and the salt, 256 bits
deriveKey(password, salt) ==
    LET pw == TextEncode(password)
    IN  [i \in 1..KeyLen |->
            (7 * Sum(pw) + 3 * Len(pw) + 11 * salt[((i - 1) % Len(salt)) + 1] + i) % 256]

\* a password argument: absent (null, undefined) or a string; `if (password)`
\* takes the empty string like an absent one
NoPassword == [given |-> FALSE, text |-> <<>>]
Password(str) == [given |-> TRUE, text |-> str]
Truthy(password) == password.given /\ password.text # <<>>

\* vanishEncrypt; rnd holds the random salt, nonces and key the call draws
vanishEncrypt(plaintext, password, rnd) ==
    LET data      == TextEncode(plaintext)
        layer1    == IF Truthy(password)
                     THEN aesEncrypt(data, deriveKey(password.text, rnd.salt), rnd.iv1)
                     ELSE data
        encrypted == aesEncrypt(layer1, rnd.key, rnd.iv2)
        finalCt   == IF Truthy(password) THEN rnd.salt \o encrypted ELSE encrypted
    IN  [ciphertext |-> btoa(finalCt), key |-> btoa(rnd.key)]

Thrown(e) == [ok |-> FALSE, err |-> e, text |-> <<>>]

\* vanishDecrypt; importKey refuses a raw key that is not 128, 192 or 256 bits
vanishDecrypt(ciphertextB64, keyB64, password) ==
    LET rawKey == atob(keyB64)
        data   == atob(ciphertextB64)
    IN  IF ~rawKey.ok THEN Thrown(rawKey.err)
        ELSE IF Len(rawKey.bytes) \notin {16, 24, 32} THEN Thrown("DataError")
        ELSE IF ~data.ok THEN Thrown(data.err)
        ELSE IF Truthy(password)
             THEN LET salt      == Take(data.bytes, SaltLen)
                      unwrapped == aesDecrypt(Drop(data.bytes, SaltLen), rawKey.bytes)
                  IN  IF ~unwrapped.ok THEN Thrown(unwrapped.err)
                      ELSE IF salt = <<>> THEN Thrown("OperationError")
                      ELSE LET plainBytes ==
                                  aesDecrypt(unwrapped.bytes, deriveKey(password.text, salt))
                           IN  IF ~plainBytes.ok THEN Thrown(plainBytes.err)
                               ELSE [ok |-> TRUE, err |-> "",
                                     text |-> TextDecode(plainBytes.bytes)]
             ELSE LET plainBytes == aesDecrypt(data.bytes, rawKey.bytes)
                  IN  IF ~plainBytes.ok THEN Thrown(plainBytes.err)
                      ELSE [ok |-> TRUE, err |-> "", text |-> TextDecode(plainBytes.bytes)]


(***************************************************************************)
(* cli/src/index.ts: the CLI's own copy of the two layers.                 *)
(***************************************************************************)
\* Buffer.from(s, 'base64'): reads the digits up to the first padding
\* character and never throws
UpToPad(s) ==
    LET pads == {i \in 1..Len(s) : s[i] = 64}
    IN  IF pads = {} THEN s
        ELSE SubSeq(s, 1, (CHOOSE i \in pads : \A j \in pads : i <= j) - 1)

bufferFrom(s) == FromDigits(UpToPad(s))

e2eEncrypt(plaintext, password, rnd) ==
    LET data      == TextEncode(plaintext)
        salted    == Truthy(password)
        layer1    == IF salted
                     THEN aesEncrypt(data, deriveKey(password.text, rnd.salt), rnd.iv1)
                     ELSE data
        encrypted == aesEncrypt(layer1, rnd.key, rnd.iv2)
        finalCt   == IF salted THEN rnd.salt \o encrypted ELSE encrypted
    IN  [ciphertext |-> btoa(finalCt), key |-> btoa(rnd.key)]

e2eDecrypt(ciphertextB64, keyB64, password) ==
    LET rawKey == bufferFrom(keyB64)
        data   == bufferFrom(ciphertextB64)
    IN  IF Len(rawKey) \notin {16, 24, 32} THEN Thrown("DataError")
        ELSE IF Truthy(password)
             THEN LET salt      == Take(data, SaltLen)
                      unwrapped == aesDecrypt(Drop(data, SaltLen), rawKey)
                  IN  IF ~unwrapped.ok THEN Thrown(unwrapped.err)
                      ELSE IF salt = <<>> THEN Thrown("OperationError")
                      ELSE LET plain == aesDecrypt(unwrapped.bytes,
                                                   deriveKey(password.text, salt))
                           IN  IF ~plain.ok THEN Thrown(plain.err)
                               ELSE [ok |-> TRUE, err |-> "", text |-> TextDecode(plain.bytes)]
             ELSE LET plain == aesDecrypt(data, rawKey)
                  IN  IF ~plain.ok THEN Thrown(plain.err)
                      ELSE [ok |-> TRUE, err |-> "", text |-> TextDecode(plain.bytes)]

(***************************************************************************)
(* The clients: what they hold, send and show.                             *)
(***************************************************************************)
NoData == [ciphertext |-> <<>>, views_remaining |-> 0, password_protected |-> FALSE]

\* res.status of a client's fetch: not settled yet, rejected, or the status
NoRes == 0
Rejected == -1

ClIdle ==
    [kind |-> "none", pc |-> "idle", id |-> "", key |-> <<>>, hash |-> FALSE,
     pw |-> NoPassword, res |-> NoRes, data |-> NoData, calls |-> 0, tries |-> 0,
     msg |-> "", out |-> <<>>]

NoSecrets == [key |-> <<>>, password |-> <<>>, plaintext |-> <<>>]
NoSent == [from |-> "none", route |-> "none", id |-> "", body |-> <<>>, holds |-> NoSecrets]
NoShare == [id |-> "", key |-> <<>>, plaintext |-> <<>>, password |-> NoPassword]

\* String.prototype.trim, the space being the whitespace of the model
RECURSIVE TrimLeft(_)
TrimLeft(str) == IF str # <<>> /\ str[1] = 32 THEN TrimLeft(Tail(str)) ELSE str

RECURSIVE TrimRight(_)
TrimRight(str) ==
    IF str # <<>> /\ str[Len(str)] = 32
    THEN TrimRight(SubSeq(str, 1, Len(str) - 1)) ELSE str

trim(str) == TrimRight(TrimLeft(str))

\* password || null, password || undefined
OrNull(password) == IF Truthy(password) THEN password ELSE NoPassword

\* (a variant of pageBody that posts the key next to the ciphertext)
pageBodyWithKey(enc, views, ttl, password) ==
    [ciphertext |-> enc.ciphertext, views |-> views, ttl_seconds |-> ttl,
     password_protected |-> Truthy(password), key |-> enc.key]

\* the JSON the create page posts
pageBody(enc, views, ttl, password) ==
    [ciphertext |-> enc.ciphertext, views |-> views, ttl_seconds |-> ttl,
     password_protected |-> Truthy(password)]

\* the JSON `vanish create` posts
cliBody(enc, opts) ==
    [ciphertext |-> enc.ciphertext, views |-> opts.views, ttl_seconds |-> opts.ttl,
     password_protected |-> Truthy(opts.password)]

\* the body '{}' of a consume request
EmptyBody == <<>>

consumeRequest(from, c) ==
    [from |-> from, route |-> "consume", id |-> c.id, body |-> EmptyBody,
     holds |-> [key |-> c.key, password |-> c.pw.text, plaintext |-> <<>>]]

failed(c, where, msg) == [c EXCEPT !.pc = where, !.msg = msg]

dataOf(resp) ==
    [ciphertext |-> resp.ciphertext, views_remaining |-> resp.views_remaining,
     password_protected |-> resp.password_protected]

\* (a variant of viewerGot that decrypts at once whatever the response says)
viewerGotNoPrompt(c, resp) ==
    IF resp.status \in {404, 410} THEN failed(c, "burned", "")
    ELSE IF resp.status # 200 THEN failed(c, "error", "Failed to retrieve link.")
    ELSE LET data == dataOf(resp)
             plaintext == vanishDecrypt(data.ciphertext, c.key, NoPassword)
         IN  IF plaintext.ok
             THEN [c EXCEPT !.pc = "content", !.data = data, !.out = plaintext.text]
             ELSE failed([c EXCEPT !.data = data], "error",
                         "Decryption failed. Wrong key or corrupted data.")

\* viewer.js, from the response on
viewerGot(c, resp) ==
    IF resp.status \in {404, 410} THEN failed(c, "burned", "")
    ELSE IF resp.status # 200 THEN failed(c, "error", "Failed to retrieve link.")
    ELSE LET data == dataOf(resp)
         IN  IF data.password_protected
             THEN [c EXCEPT !.pc = "password", !.data = data]
             ELSE LET plaintext == vanishDecrypt(data.ciphertext, c.key, NoPassword)
                  IN  IF plaintext.ok
                      THEN [c EXCEPT !.pc = "content", !.data = data, !.out = plaintext.text]
                      ELSE failed([c EXCEPT !.data = data], "error",
                                  "Decryption failed. Wrong key or corrupted data.")

\* (a variant of viewerSubmit that fetches the consume route again for each try)
viewerSubmitRefetch(c, pw) ==
    IF pw = <<>> THEN c
    ELSE LET plaintext == vanishDecrypt(c.data.ciphertext, c.key, Password(pw))
         IN  IF plaintext.ok
             THEN [c EXCEPT !.pc = "content", !.out = plaintext.text, !.msg = "",
                            !.tries = @ + 1, !.calls = @ + 1]
             ELSE [c EXCEPT !.msg = "Wrong password. Try again.", !.tries = @ + 1,
                            !.calls = @ + 1]

\* the click handler of the password prompt
viewerSubmit(c, pw) ==
    IF pw = <<>> THEN c
    ELSE LET plaintext == vanishDecrypt(c.data.ciphertext, c.key, Password(pw))
         IN  IF plaintext.ok
             THEN [c EXCEPT !.pc = "content", !.out = plaintext.text, !.msg = "",
                            !.tries = @ + 1]
             ELSE [c EXCEPT !.msg = "Wrong password. Try again.", !.tries = @ + 1]

\* `vanish read`, the decryption of a ciphertext already fetched
cliDecrypt(c, key, password) ==
    LET plaintext == e2eDecrypt(c.data.ciphertext, key, password)
    IN  IF plaintext.ok
        THEN [c EXCEPT !.pc = "printed", !.out = plaintext.text, !.tries = @ + 1]
        ELSE [failed(c, "exit", plaintext.err) EXCEPT !.tries = @ + 1]

(***************************************************************************)
(* Init                                                                    *)
(***************************************************************************)
StoreInit ==
    /\ links = <<>>
    /\ now = 0
    /\ req = [r \in Reqs |-> IdleReq]
    /\ last = NoResp
    /\ served = [i \in Ids |-> 0]
    /\ removed = {}
    /\ gone = {}

NoText == [ok |-> FALSE, err |-> "", text |-> <<>>]
NoEnc == [ciphertext |-> <<>>, key |-> <<>>]
CrIdle ==
    [pc |-> "idle", p |-> <<>>, pw1 |-> NoPassword, pw2 |-> NoPassword,
     enc |-> NoEnc, out |-> NoText, how |-> "none"]

ClientInit ==
    /\ cl = ClIdle
    /\ sent = NoSent
    /\ share = NoShare

GenIdle == [pc |-> "idle", args |-> <<>>, array |-> <<>>, id |-> <<>>]

Init ==
    /\ StoreInit
    /\ cr = CrIdle
    /\ gen = GenIdle
    /\ ClientInit

(***************************************************************************)
(* POST /api/v1/links                                                      *)
(***************************************************************************)
CreateRoute(S) ==
    /\ \E id \in S, body \in Bodies :
        LET done == createRoute(links, now, id, body)
        IN  /\ links' = done.db
            /\ last' = done.resp
            /\ sent' = [NoSent EXCEPT !.from = "caller", !.route = "create", !.body = body]
    /\ UNCHANGED <<now, req, served, removed, gone>>

(***************************************************************************)
(* POST /api/v1/links/:id/consume, one action per await                    *)
(***************************************************************************)
\* gone after an answer; quiet: no other consume handler is in flight
goneAfter(resp, quiet) ==
    IF resp.status = 410 /\ resp.id \notin removed /\ quiet
    THEN gone \cup {resp.id} ELSE gone

ConsumeGetLink(r, id) ==
    /\ req[r].pc = "idle"
    /\ \A q \in Reqs : q < r => req[q].pc # "idle"
    /\ IF id \in DOMAIN links
       THEN /\ req' = [req EXCEPT ![r] = [pc |-> "got", id |-> id,
                                          link |-> getLink(links, id)]]
            /\ UNCHANGED last
       ELSE /\ req' = [req EXCEPT ![r] = DoneReq]
            /\ last' = errorResp("consume", id, 404)
    /\ UNCHANGED <<links, now, served, removed, gone>>

ConsumeCheck(r) ==
    /\ req[r].pc = "got"
    /\ req' = [req EXCEPT ![r].pc = IF isDead(req[r].link, now) THEN "dead" ELSE "live"]
    /\ UNCHANGED <<links, now, last, served, removed, gone>>

ConsumeBurn(r) ==
    /\ req[r].pc \in {"live", "dead"}
    /\ links' = burnLink(links, req[r].id)
    /\ req' = [req EXCEPT ![r] = DoneReq]
    /\ IF req[r].pc = "dead"
       THEN /\ last' = errorResp("consume", req[r].id, 410)
            /\ UNCHANGED served
       ELSE /\ last' = consumeOk(req[r].id, req[r].link)
            /\ served' = [served EXCEPT ![req[r].id] = @ + 1]
    /\ gone' = goneAfter(last', \A q \in Reqs \ {r} : req[q].pc \in {"idle", "done"})
    /\ UNCHANGED <<now, removed>>

\* The whole handler, run to its end with no other request in between.
ConsumeRoute(r, id) ==
    /\ req[r].pc = "idle"
    /\ \A q \in Reqs : q < r => req[q].pc # "idle"
    /\ req' = [req EXCEPT ![r] = DoneReq]
    /\ LET done == consumeRoute(links, now, id)
       IN  /\ links' = done.db
           /\ last' = done.resp
           /\ served' = IF done.resp.status = 200
                        THEN [served EXCEPT ![id] = @ + 1] ELSE served
           /\ gone' = goneAfter(done.resp, TRUE)
    /\ UNCHANGED <<now, removed>>

(***************************************************************************)
(* GET and DELETE /api/v1/links/:id, the scheduled cleanup, the clock      *)
(***************************************************************************)
StatusRoute(S) ==
    /\ \E id \in S :
        last' = statusRoute(links, id)
    /\ UNCHANGED <<links, now, req, served, removed, gone>>

DeleteRoute(S) ==
    /\ \E id \in S :
        /\ links' = deleteLink(links, id)
        /\ last' = [NoResp EXCEPT !.op = "delete", !.id = id, !.status = 200]
        /\ removed' = IF id \in DOMAIN links THEN removed \cup {id} ELSE removed
    /\ gone' = gone \ removed'
    /\ UNCHANGED <<now, req, served>>

scheduled ==
    /\ links' = cleanupExpired(links, now)
    /\ last' = [NoResp EXCEPT !.op = "sweep",
                              !.n = Cardinality(DOMAIN links \ DOMAIN links')]
    /\ removed' = removed \cup (DOMAIN links \ DOMAIN links')
    /\ gone' = gone \ removed'
    /\ UNCHANGED <<now, req, served>>

Tick ==
    /\ now + TickMs <= MaxTicks * TickMs
    /\ now' = now + TickMs
    /\ UNCHANGED <<links, req, last, served, removed, gone>>

Next ==
    /\ \/ CreateRoute(RaceIds)
       \/ (\E r \in ConcReqs, id \in RaceIds : ConsumeGetLink(r, id)) /\ sent' = NoSent
       \/ (\E r \in ConcReqs : ConsumeCheck(r)) /\ sent' = NoSent
       \/ (\E r \in ConcReqs : ConsumeBurn(r)) /\ sent' = NoSent
       \/ StatusRoute(RaceIds) /\ sent' = NoSent
       \/ DeleteRoute(RaceIds) /\ sent' = NoSent
       \/ scheduled /\ sent' = NoSent
       \/ Tick /\ UNCHANGED sent
    /\ UNCHANGED <<cr, gen, cl, share>>

Spec == Init /\ [][Next]_vars

SeqNext ==
    /\ \/ CreateRoute(Ids)
       \/ (\E r \in SeqReqs, id \in Ids : ConsumeRoute(r, id)) /\ sent' = NoSent
       \/ StatusRoute(Ids) /\ sent' = NoSent
       \/ DeleteRoute(Ids) /\ sent' = NoSent
       \/ scheduled /\ sent' = NoSent
       \/ Tick /\ UNCHANGED sent
    /\ UNCHANGED <<cr, gen, cl, share>>

SeqSpec == Init /\ [][SeqNext]_vars

(***************************************************************************)
(* FaultSpec: requests during which a statement sent to D1 rejects.  The   *)
(* handler that met the rejection is left at "threw".                      *)
(***************************************************************************)
threw(r, op, id) ==
    /\ req[r].pc = "idle"
    /\ \A q \in Reqs : q < r => req[q].pc # "idle"
    /\ req' = [req EXCEPT ![r] = [pc |-> "threw", id |-> id, link |-> NoRow]]
    /\ last' = uncaught(op, id)
    /\ sent' = NoSent
    /\ UNCHANGED <<links, now, served, removed, gone>>

\* create: the request is refused before the INSERT when it has no ciphertext
CreateThrows(r) ==
    \E body \in Bodies :
        /\ createRoute(links, now, "", body).resp.status # 400
        /\ threw(r, "create", "")

\* status: the SELECT rejects
StatusThrows(r, id) == threw(r, "status", id)

\* (a variant of burnFailed that answers from the row read, the UPDATE not
\* being awaited)
burnFailedServed(id, link) == consumeOk(id, link)

\* the UPDATE of burnLink rejects in a handler that holds the row: the await
\* throws before the response is built
burnFailed(id, link) == uncaught("consume", id)

\* consume: the SELECT rejects, or the SELECT found the row and the UPDATE
\* rejects; the handler keeps the row it read
ConsumeThrows(r, id) ==
    /\ req[r].pc = "idle"
    /\ \A q \in Reqs : q < r => req[q].pc # "idle"
    /\ \E at \in {"getLink", "burnLink"} :
        /\ at = "burnLink" => id \in DOMAIN links
        /\ req' = [req EXCEPT ![r] =
                      [pc |-> "threw", id |-> id,
                       link |-> IF at = "burnLink" THEN getLink(links, id) ELSE NoRow]]
        /\ last' = IF at = "burnLink" THEN burnFailed(id, getLink(links, id))
                   ELSE uncaught("consume", id)
    /\ sent' = NoSent
    /\ UNCHANGED <<links, now, served, removed, gone>>

\* delete: the DELETE rejects
DeleteThrows(r, id) == threw(r, "delete", id)

FaultNext ==
    /\ \/ CreateRoute(RaceIds)
       \/ (\E r \in ConcReqs, id \in RaceIds : ConsumeRoute(r, id)) /\ sent' = NoSent
       \/ \E r \in ConcReqs : CreateThrows(r)
       \/ \E r \in ConcReqs, id \in RaceIds : StatusThrows(r, id)
       \/ \E r \in ConcReqs, id \in RaceIds : ConsumeThrows(r, id)
       \/ \E r \in ConcReqs, id \in RaceIds : DeleteThrows(r, id)
       \/ Tick /\ UNCHANGED sent
    /\ UNCHANGED <<cr, gen, cl, share>>

FaultSpec == Init /\ [][FaultNext]_vars

(***************************************************************************)
(* LiveSpec: one token over a long time.  The clock reads the first MaxSecs *)
(* seconds and the same seconds DefaultTtl later; records are created in   *)
(* the first of them, so that every TTL of the model can elapse.  The cron  *)
(* trigger keeps running the cleanup and the clock keeps advancing.        *)
(***************************************************************************)
LiveTimes == (0..MaxSecs) \cup (DefaultTtl..(DefaultTtl + MaxSecs))

LiveCreate ==
    /\ now < MaxSecs * MsPerSec
    /\ CreateRoute(RaceIds)

\* the clock moves to its next reading
Pass ==
    /\ \E t \in LiveTimes :
        /\ t * MsPerSec > now
        /\ \A u \in LiveTimes : u * MsPerSec > now => t <= u
        /\ now' = t * MsPerSec
    /\ UNCHANGED <<links, req, last, served, removed, gone>>

LiveNext ==
    /\ \/ LiveCreate
       \/ (\E r \in ConcReqs, id \in RaceIds : ConsumeRoute(r, id)) /\ sent' = NoSent
       \/ scheduled /\ sent' = NoSent
       \/ Pass /\ UNCHANGED sent
    /\ UNCHANGED <<cr, gen, cl, share>>

LiveSpec ==
    /\ Init /\ [][LiveNext]_vars
    /\ WF_vars(scheduled /\ sent' = NoSent /\ UNCHANGED <<cr, gen, cl, share>>)
    /\ WF_vars(Pass /\ UNCHANGED <<sent, cr, gen, cl, share>>)

(***************************************************************************)
(* CryptoSpec: one vanishEncrypt and one vanishDecrypt of its result.      *)
(***************************************************************************)
Bytes(n, seed) == [i \in 1..n |-> (seed * i + (seed \div 2)) % 256]

\* UTF-16 code units: a, the byte order mark, the two halves of U+1F600
Units == {97, 65279, 55357, 56832}

RECURSIVE Strings(_)
Strings(n) ==
    IF n = 0 THEN {<<>>}
    ELSE Strings(n - 1) \cup {Append(t, u) : t \in {x \in Strings(n - 1) : Len(x) = n - 1},
                                              u \in Units}

Plaintexts == Strings(MaxLen)
\* no password, "", "p", "q" and e-acute, a lone surrogate, U+FFFD
Passwords ==
    {NoPassword, Password(<<>>), Password(<<112>>), Password(<<113, 233>>),
     Password(<<55357>>), Password(<<65533>>)}
Randoms ==
    { [salt |-> Bytes(SaltLen, 5), iv1 |-> Bytes(IvLen, 3), iv2 |-> Bytes(IvLen, 88),
       key |-> Bytes(KeyLen, 7)],
      [salt |-> Bytes(SaltLen, 77), iv1 |-> Bytes(IvLen, 41), iv2 |-> Bytes(IvLen, 3),
       key |-> Bytes(KeyLen, 201)] }

CryptoInit ==
    /\ StoreInit
    /\ ClientInit
    /\ \E p \in Plaintexts, pw1 \in Passwords, pw2 \in Passwords :
          cr = [CrIdle EXCEPT !.pc = "start", !.p = p, !.pw1 = pw1, !.pw2 = pw2]
    /\ gen = GenIdle

Encrypt ==
    /\ cr.pc = "start"
    /\ \E rnd \in Randoms :
          cr' = [cr EXCEPT !.pc = "encrypted", !.enc = vanishEncrypt(cr.p, cr.pw1, rnd)]
    /\ UNCHANGED <<storeVars, clientVars, gen>>

Decrypt ==
    /\ cr.pc = "encrypted"
    /\ cr' = [cr EXCEPT !.pc = "decrypted",
                        !.out = vanishDecrypt(cr.enc.ciphertext, cr.enc.key, cr.pw2)]
    /\ UNCHANGED <<storeVars, clientVars, gen>>

\* What reaches vanishDecrypt in place of the link as created: another key, a
\* key cut short, a key or a ciphertext with a character that is not base64
\* (65), a ciphertext with one character changed, a ciphertext cut short.
Tampers == {"key", "keylen", "keychars", "flip", "truncate", "chars"}

Tamper(enc, how) ==
    [ciphertext |->
        IF how = "flip" THEN [enc.ciphertext EXCEPT ![1] = (@ + 1) % 64]
        ELSE IF how = "truncate" THEN Take(enc.ciphertext, 8)
        ELSE IF how = "chars" THEN [enc.ciphertext EXCEPT ![2] = 65]
        ELSE enc.ciphertext,
     key |->
        IF how = "key" THEN btoa(Bytes(KeyLen, 11))
        ELSE IF how = "keylen" THEN Take(enc.key, 8)
        ELSE IF how = "keychars" THEN [enc.key EXCEPT ![2] = 65]
        ELSE enc.key]

\* vanishDecrypt called with the right password on a link that was altered
Tampered ==
    /\ cr.pc = "encrypted"
    /\ cr.pw1 = cr.pw2 /\ Len(cr.p) < MaxLen
    /\ \E how \in Tampers :
        \E t \in {Tamper(cr.enc, how)} :
            cr' = [cr EXCEPT !.pc = "tampered", !.how = how,
                             !.out = vanishDecrypt(t.ciphertext, t.key, cr.pw2)]
    /\ UNCHANGED <<storeVars, clientVars, gen>>

CryptoNext == Encrypt \/ Decrypt \/ Tampered

CryptoSpec == CryptoInit /\ [][CryptoNext]_vars

(***************************************************************************)
(* IdSpec: one call of generateId (crypto.ts), with or without its length. *)
(***************************************************************************)
\* 'a'..'z', 'A'..'Z', '0'..'9' as code units
CHARS ==
    [i \in 1..62 |-> IF i <= 26 THEN 96 + i ELSE IF i <= 52 THEN 38 + i ELSE i - 5]

\* args: the call's arguments, <<>> or <<length>>; array: the Uint8Array as
\* crypto.getRandomValues left it
generateId(args, array) ==
    LET length == IF args = <<>> THEN DefaultIdLen ELSE args[1]
    IN  [i \in 1..length |-> CHARS[(array[i] % Len(CHARS)) + 1]]

\* bytes on either side of the multiples of 62, for the places after the first
SomeBytes == {0, 61, 62, 255}

RECURSIVE Arrays(_)
Arrays(n) ==
    IF n = 0 THEN {<<>>}
    ELSE IF n = 1 THEN {<<b>> : b \in 0..255}
    ELSE {Append(t, b) : t \in Arrays(n - 1), b \in SomeBytes}

\* What getRandomValues may leave in an array of n bytes: any byte in the first
\* place and some in the others up to MaxIdLen, two fixed arrays beyond.
getRandomValues(n) ==
    IF n <= MaxIdLen THEN Arrays(n) ELSE {Bytes(n, 5), Bytes(n, 77)}

Lengths == {<<>>} \cup {<<n>> : n \in 0..MaxIdLen}

IdInit ==
    /\ StoreInit
    /\ ClientInit
    /\ cr = CrIdle
    /\ \E args \in Lengths :
          gen = [GenIdle EXCEPT !.pc = "called", !.args = args]

GetRandomValues ==
    /\ gen.pc = "called"
    /\ \E array \in getRandomValues(IF gen.args = <<>> THEN DefaultIdLen ELSE gen.args[1]) :
          gen' = [gen EXCEPT !.pc = "filled", !.array = array]
    /\ UNCHANGED <<storeVars, clientVars, cr>>

GenerateId ==
    /\ gen.pc = "filled"
    /\ gen' = [gen EXCEPT !.pc = "returned", !.id = generateId(gen.args, gen.array)]
    /\ UNCHANGED <<storeVars, clientVars, cr>>

IdNext == GetRandomValues \/ GenerateId

IdSpec == IdInit /\ [][IdNext]_vars

(***************************************************************************)
(* ClientSpec: the create page, `vanish create`, the viewer page and       *)
(* `vanish read`, in front of the worker serving one request at a time.    *)
(***************************************************************************)
\* what a user types: "a" with a trailing space, a lone space; "p", "q"
Contents == {<<97, 32>>, <<32>>}
PwP == <<112>>
PwQ == <<113>>
Typed == {NoPassword, Password(<<>>), Password(PwP), Password(PwQ)}
ViewChoices == {1, 2}
TtlChoice == 1
ClientRandom ==
    [salt |-> Bytes(SaltLen, 5), iv1 |-> Bytes(IvLen, 3), iv2 |-> Bytes(IvLen, 88),
     key |-> Bytes(KeyLen, 7)]
OtherKey == btoa(Bytes(KeyLen, 201))

\* the text of a URL that is no id; the digits a bare id gives as a key
UrlText == "(url)"
ArgDigits == <<26>>

\* window.location of the viewer page: the link as shared, without its
\* fragment, without its id, with another key
ViewerLocations ==
    { [id |-> share.id, key |-> share.key, hash |-> TRUE],
      [id |-> share.id, key |-> <<>>, hash |-> FALSE],
      [id |-> "", key |-> share.key, hash |-> TRUE],
      [id |-> share.id, key |-> OtherKey, hash |-> TRUE] }

\* the argument of `vanish read`: the link as shared, with another key, the
\* bare id, the URL without its fragment
CliArgs ==
    { [id |-> share.id, key |-> share.key, hash |-> TRUE],
      [id |-> share.id, key |-> OtherKey, hash |-> TRUE],
      [id |-> share.id, key |-> <<>>, hash |-> FALSE],
      [id |-> IF share.id = "" THEN "" ELSE UrlText, key |-> <<>>, hash |-> FALSE] }

\* generateId() in front of the clients: an id no row has yet (CreateRoute
\* follows the other draw)
FreshIds == RaceIds \ DOMAIN links

\* VANISH_PASSWORD and process.stdin.isTTY, read by `vanish read` when the link
\* asks for a password it was not given
EnvChoices(c) ==
    IF c.kind = "cli" /\ ~Truthy(c.pw) THEN {NoPassword, Password(PwP)} ELSE {NoPassword}

TtyChoices(c) == IF c.kind = "cli" /\ ~Truthy(c.pw) THEN BOOLEAN ELSE {FALSE}

\* content.slice(content.indexOf('#') + 1)
argKey(c) == IF c.hash THEN c.key ELSE ArgDigits

\* the create page's click handler
PageCreate ==
    /\ \E content \in Contents, password \in {Password(<<>>), Password(PwP)},
          views \in ViewChoices, id \in FreshIds :
        /\ trim(content) # <<>>
        /\ \E enc \in {vanishEncrypt(trim(content), OrNull(password), ClientRandom)} :
            LET body == pageBody(enc, views, TtlChoice, password)
                done == createRoute(links, now, id, body)
            IN  /\ sent' = [from |-> "page", route |-> "create", id |-> "", body |-> body,
                            holds |-> [key |-> enc.key, password |-> password.text,
                                       plaintext |-> trim(content)]]
                /\ links' = done.db
                /\ last' = done.resp
                /\ share' = [id |-> IF done.resp.status = 200 THEN done.resp.id
                                    ELSE "undefined",
                             key |-> enc.key, plaintext |-> trim(content),
                             password |-> OrNull(password)]
    /\ UNCHANGED <<now, req, served, removed, gone, cr, gen, cl>>

\* `vanish "secret"`: main and createLink
CliCreate ==
    /\ \E content \in Contents, password \in {NoPassword, Password(PwP)},
          views \in ViewChoices, id \in FreshIds :
        /\ trim(content) # <<>>
        /\ \E enc \in {e2eEncrypt(trim(content), OrNull(password), ClientRandom)} :
            LET opts == [views |-> views, ttl |-> TtlChoice, password |-> OrNull(password)]
                body == cliBody(enc, opts)
                done == createRoute(links, now, id, body)
            IN  /\ sent' = [from |-> "cli", route |-> "create", id |-> "", body |-> body,
                            holds |-> [key |-> enc.key, password |-> password.text,
                                       plaintext |-> trim(content)]]
                /\ links' = done.db
                /\ last' = done.resp
                /\ share' = IF done.resp.status = 200
                            THEN [id |-> done.resp.id, key |-> enc.key,
                                  plaintext |-> trim(content), password |-> opts.password]
                            ELSE share
    /\ UNCHANGED <<now, req, served, removed, gone, cr, gen, cl>>

\* the viewer page is loaded: up to the fetch
ViewerOpen ==
    /\ cl.pc # "loading"
    /\ \E loc \in ViewerLocations :
        LET c == [ClIdle EXCEPT !.kind = "viewer", !.id = loc.id, !.key = loc.key,
                                !.hash = loc.hash]
        IN  IF loc.id = ""
            THEN cl' = failed(c, "error", "Invalid link.") /\ sent' = NoSent
            ELSE IF loc.key = <<>>
            THEN /\ cl' = failed(c, "error",
                                 "Missing decryption key. The link may be incomplete.")
                 /\ sent' = NoSent
            ELSE /\ cl' = [c EXCEPT !.pc = "loading", !.calls = @ + 1]
                 /\ sent' = consumeRequest("viewer", c)
    /\ UNCHANGED <<storeVars, cr, gen, share>>

\* `vanish read <url>`: main and consumeLink, up to the fetch
CliRead ==
    /\ cl.pc # "loading"
    /\ \E arg \in CliArgs, pw \in Typed, asked \in BOOLEAN :
        LET c == [ClIdle EXCEPT !.kind = "cli", !.id = arg.id, !.key = arg.key,
                                !.hash = arg.hash, !.pw = pw]
        IN  IF arg.id = ""
            THEN cl' = failed(c, "exit", "Usage: vanish read <url>") /\ sent' = NoSent
            ELSE IF asked /\ ~pw.given
            THEN /\ cl' = failed(c, "exit", "--password requires a value")
                 /\ sent' = NoSent
            ELSE /\ cl' = [c EXCEPT !.pc = "loading", !.calls = @ + 1]
                 /\ sent' = consumeRequest("cli", c)
    /\ UNCHANGED <<storeVars, cr, gen, share>>

\* fetch rejects
thrown(c) ==
    IF c.kind = "viewer"
    THEN failed([c EXCEPT !.res = Rejected], "error",
                "Decryption failed. Wrong key or corrupted data.")
    ELSE failed([c EXCEPT !.res = Rejected], "exit", "fetch failed")

\* `vanish read`, from the response on; env is VANISH_PASSWORD
cliGot(c, resp, env, tty) ==
    IF resp.status = 404 THEN failed(c, "exit", "not found or already burned")
    ELSE IF resp.status = 410 THEN failed(c, "exit", "expired or burned")
    ELSE IF resp.status # 200 THEN failed(c, "exit", "HTTP 500")
    ELSE LET data == dataOf(resp)
             c1   == [c EXCEPT !.data = data]
         IN  IF data.password_protected /\ ~Truthy(c.pw)
             THEN IF Truthy(env) THEN cliDecrypt([c1 EXCEPT !.pw = env], argKey(c1), env)
                  ELSE IF ~tty THEN failed(c1, "exit", "This link is password-protected.")
                  ELSE [c1 EXCEPT !.pc = "prompt"]
             ELSE IF c.key # <<>>
                  THEN cliDecrypt(c1, c.key,
                                  IF data.password_protected THEN c.pw ELSE NoPassword)
                  ELSE [c1 EXCEPT !.pc = "printed", !.out = data.ciphertext]

got(c, resp, env, tty) ==
    LET c0 == [c EXCEPT !.res = resp.status]
    IN  IF c.kind = "viewer" THEN viewerGot(c0, resp) ELSE cliGot(c0, resp, env, tty)

\* the consume request of the client is lost, served, or met by a failure
Fetched ==
    /\ cl.pc = "loading"
    /\ \/ /\ cl' = thrown(cl)
          /\ UNCHANGED <<links, req, last, served, gone>>
       \/ \E r \in ConcReqs, delivered \in BOOLEAN, env \in EnvChoices(cl),
             tty \in TtyChoices(cl) :
            /\ req[r].pc = "idle"
            /\ \A q \in Reqs : q < r => req[q].pc # "idle"
            /\ req' = [req EXCEPT ![r] = DoneReq]
            /\ \E done \in {consumeRoute(links, now, cl.id)} :
                /\ links' = done.db
                /\ last' = done.resp
                /\ served' = IF done.resp.status = 200
                             THEN [served EXCEPT ![cl.id] = @ + 1] ELSE served
                /\ gone' = goneAfter(done.resp, TRUE)
                /\ cl' = IF delivered THEN got(cl, done.resp, env, tty) ELSE thrown(cl)
       \/ /\ last' = errorResp("consume", cl.id, 500)
          /\ cl' = got(cl, last', NoPassword, FALSE)
          /\ UNCHANGED <<links, req, served, gone>>
    /\ sent' = NoSent
    /\ UNCHANGED <<now, removed, cr, gen, share>>

\* a click on the viewer's password prompt
ViewerSubmit ==
    /\ cl.kind = "viewer" /\ cl.pc = "password"
    /\ cl.tries < MaxTries
    /\ \E pw \in {<<>>, PwP, PwQ} : cl' = viewerSubmit(cl, pw)
    /\ sent' = NoSent
    /\ UNCHANGED <<storeVars, cr, gen, share>>

\* the password typed at the prompt of `vanish read`
CliPrompt ==
    /\ cl.kind = "cli" /\ cl.pc = "prompt"
    /\ \E pw \in {<<>>, PwP, PwQ} : cl' = cliDecrypt(cl, argKey(cl), Password(pw))
    /\ sent' = NoSent
    /\ UNCHANGED <<storeVars, cr, gen, share>>

ClientNext ==
    \/ PageCreate
    \/ CliCreate
    \/ ViewerOpen
    \/ CliRead
    \/ Fetched
    \/ ViewerSubmit
    \/ CliPrompt
    \/ Tick /\ UNCHANGED <<cr, gen, cl, sent, share>>

ClientSpec == Init /\ [][ClientNext]_vars

(***************************************************************************)
(* Properties of the link store.                                           *)
(***************************************************************************)
\* created_at + ttl_seconds, in milliseconds
ExpiresAt(row) == row.created_at * MsPerSec + row.ttl_seconds * MsPerSec

FirstLife(id) == id \in DOMAIN links /\ id \notin removed

\* a step in which handler r sends its answer
Answers(r) == req[r].pc # "done" /\ req'[r].pc = "done"

\* C1: of the consume requests on a record created with views = N >= 1, at most
\* N are answered with the ciphertext, however the requests interleave.
C1_AtMostNViews ==
    \A id \in Ids :
        (FirstLife(id) /\ links[id].views_total >= 1)
            => served[id] <= links[id].views_total

\* C2: consume requests served one after another on a record created with
\* views = N >= 1: the k-th answer with ciphertext reports views_remaining = N - k
\* and burned exactly when k = N, no more than N requests are answered with the
\* ciphertext, and inside the TTL a request is answered Expired only after N
\* answers with ciphertext.
C2_SequentialConsumes ==
    (last.op = "consume" /\ FirstLife(last.id) /\ links[last.id].views_total >= 1)
        => LET row == links[last.id]
               N   == row.views_total
               k   == served[last.id]
           IN  /\ last.status \in {200, 410}
               /\ last.status = 200 =>
                    /\ k \in 1..N
                    /\ last.ciphertext = row.content
                    /\ last.views_remaining = N - k
                    /\ last.burned = (k = N)
               /\ last.status = 410 => last.ciphertext = <<>>
               /\ (last.status = 410 /\ now < ExpiresAt(row)) => k = N

\* C2 witness: the third request on a record of two views is answered Expired
\* inside the TTL.
C2_Witness ==
    /\ last.op = "consume" /\ last.status = 410
    /\ FirstLife(last.id)
    /\ links[last.id].views_total = 2 /\ served[last.id] = 2
    /\ now < ExpiresAt(links[last.id])

\* C3: every stored record satisfies 0 <= views_remaining <= views_total.
C3_ViewsInRange ==
    \A id \in DOMAIN links :
        /\ 0 <= links[id].views_remaining
        /\ links[id].views_remaining <= links[id].views_total

\* C4: a consume answered Expired has deleted the record, so that a status
\* query sent next is answered NotFound.
C4_DeadConsumeDeletes ==
    (last.op = "consume" /\ last.status = 410) => last.id \notin DOMAIN links

\* C5 as claimed: a consume of a record with views_remaining > 0 is answered with
\* the ciphertext exactly at the instants now < created_at + ttl_seconds, and
\* Expired from now = created_at + ttl_seconds on.
C5_LiveStrictlyBefore ==
    [][\A r \in SeqReqs :
        (Answers(r) /\ last'.id \in DOMAIN links
                    /\ links[last'.id].views_remaining > 0)
            => /\ last'.status = 200 <=> now < ExpiresAt(links[last'.id])
               /\ last'.status # 200 => (last'.status = 410 /\ last'.ciphertext = <<>>)
      ]_vars

\* C5 as amended: the ciphertext is returned exactly at the instants
\* now <= created_at + ttl_seconds, and Expired at every instant after that.
C5_LiveUpToExpiry ==
    [][\A r \in SeqReqs :
        (Answers(r) /\ last'.id \in DOMAIN links
                    /\ links[last'.id].views_remaining > 0)
            => /\ last'.status = 200 <=> now <= ExpiresAt(links[last'.id])
               /\ last'.status # 200 => (last'.status = 410 /\ last'.ciphertext = <<>>)
      ]_vars

\* C5 witness: a consume answered with the ciphertext at the very instant
\* created_at + ttl_seconds.
C5_Witness ==
    /\ last.op = "consume" /\ last.status = 200
    /\ last.id \in DOMAIN links
    /\ now = ExpiresAt(links[last.id])

\* C10: a consume answered with the ciphertext returns the ciphertext given at
\* create, the views_remaining stored right after its own decrement, and
\* burned exactly when that value is 0.
C10_AnswerMatchesStore ==
    [][\A r \in ConcReqs :
        (Answers(r) /\ last'.status = 200 /\ last'.op = "consume"
                    /\ req[r].id \in DOMAIN links' /\ req[r].id \notin removed)
            => /\ last'.ciphertext = links'[req[r].id].content
               /\ last'.views_remaining = links'[req[r].id].views_remaining
               /\ last'.burned = (links'[req[r].id].views_remaining = 0)
      ]_vars

\* a create request as the wire shape asks for it: a ciphertext, views >= 1,
\* ttl_seconds >= 1
ValidCreate(body) ==
    /\ "ciphertext" \in DOMAIN body /\ body.ciphertext # <<>>
    /\ "views" \in DOMAIN body /\ body.views >= 1
    /\ "ttl_seconds" \in DOMAIN body /\ body.ttl_seconds >= 1
    /\ "password_protected" \in DOMAIN body

\* a step in which the worker answers a create request sent to it directly
CreateStep == sent'.from = "caller" /\ sent'.route = "create" /\ now' = now

\* C11: a create with valid input that meets no storage error inserts exactly
\* one record under an id not in use, with views_remaining = views_total = views,
\* the given ttl_seconds and ciphertext and created_at the clock's reading (in
\* the store's whole seconds), leaves every other record as it was, answers the
\* new id with views_left = views and expires_in = ttl_seconds, and a status
\* query sent right after returns those counters.
C11_CreateInsertsOne ==
    [][(CreateStep /\ ValidCreate(sent'.body) /\ last'.status # 500)
        => LET body == sent'.body
               id   == last'.id
           IN  /\ last'.op = "create" /\ last'.status = 200
               /\ id \notin DOMAIN links
               /\ DOMAIN links' = DOMAIN links \cup {id}
               /\ \A i \in DOMAIN links : links'[i] = links[i]
               /\ links'[id].content = body.ciphertext
               /\ links'[id].views_remaining = body.views
               /\ links'[id].views_total = body.views
               /\ links'[id].ttl_seconds = body.ttl_seconds
               /\ links'[id].password_protected = body.password_protected
               /\ links'[id].created_at * MsPerSec <= now
               /\ now < (links'[id].created_at + 1) * MsPerSec
               /\ last'.views_remaining = body.views
               /\ last'.n = body.ttl_seconds
               /\ last'.password_protected = body.password_protected
               /\ statusRoute(links', id).status = 200
               /\ statusRoute(links', id).views_remaining = body.views
               /\ statusRoute(links', id).views_total = body.views
      ]_vars

\* C11 witness: a record of two views has just been created next to another
\* record, after the clock has moved.
C11_Witness ==
    /\ sent.from = "caller" /\ sent.route = "create" /\ ValidCreate(sent.body)
    /\ last.op = "create" /\ last.status = 200
    /\ sent.body.views = 2 /\ links[last.id].views_remaining = 2
    /\ Cardinality(DOMAIN links) = 2
    /\ now > 0

\* C12: a create request with no ciphertext, or with views <= 0 or
\* ttl_seconds <= 0, is answered InvalidInput and stores nothing; no stored
\* record has views_total < 1 or ttl_seconds < 1.
C12_InvalidCreateRejected ==
    [][ /\ (CreateStep /\ ~ValidCreate(sent'.body) /\ last'.status # 500)
              => (last'.status = 400 /\ links' = links)
        /\ \A id \in DOMAIN links' :
              links'[id].views_total >= 1 /\ links'[id].ttl_seconds >= 1
      ]_vars

\* a step in which the worker answers a status query
StatusStep == last'.op = "status" /\ now' = now

\* C13: a status query changes no record, live or dead; it is answered
\* NotFound exactly when the table has no row for the id, and with the row's
\* counters otherwise.
C13_StatusReadsOnly ==
    [][StatusStep
        => /\ links' = links
           /\ last'.status \in {200, 404}
           /\ last'.status = 404 <=> last'.id \notin DOMAIN links
           /\ last'.status = 200 =>
                 /\ last'.views_remaining = links[last'.id].views_remaining
                 /\ last'.views_total = links[last'.id].views_total
                 /\ last'.password_protected = links[last'.id].password_protected
      ]_vars

\* C13 witness: the status of a record out of views, of two, has been answered
\* with its counters.
C13_Witness ==
    /\ last.op = "status" /\ last.status = 200
    /\ last.id \in DOMAIN links
    /\ links[last.id].views_remaining <= 0 /\ links[last.id].views_total = 2
    /\ last.views_remaining = links[last.id].views_remaining

\* a step in which the worker answers a delete request
DeleteStep == last'.op = "delete" /\ now' = now

\* C14: a delete removes the row of its id, live or dead, and no other row; on
\* an absent id it succeeds and changes nothing, so that a second delete has no
\* further effect; a status query or a consume served next on that id is
\* answered NotFound.
C14_DeleteRemoves ==
    [][ /\ DeleteStep
              => /\ last'.status = 200
                 /\ DOMAIN links' = DOMAIN links \ {last'.id}
                 /\ \A i \in DOMAIN links' : links'[i] = links[i]
                 /\ last'.id \notin DOMAIN links => links' = links
                 /\ deleteLink(links', last'.id) = links'
        /\ (last.op = "delete" /\ last'.id = last.id /\ now' = now
               /\ last'.op \in {"status", "consume"})
              => (last'.status = 404 /\ links' = links)
      ]_vars

\* C14 witness: a record that had been consumed was deleted while another
\* record stayed, and the status query that followed was answered NotFound.
C14_Witness ==
    /\ last.op = "status" /\ last.status = 404
    /\ last.id \in removed /\ served[last.id] >= 1
    /\ DOMAIN links = Ids \ {last.id}

\* a step in which the scheduled cleanup runs
SweepStep == last'.op = "sweep" /\ now' = now

\* the rows a consume would find dead at the instant t: TTL elapsed or no view
\* left
DeadRows(db, t) == {id \in DOMAIN db : isDead(db[id], t)}

\* C15: the sweep deletes exactly the records dead when it runs, leaves every
\* other record as it was, and returns the number of records it deleted.
C15_SweepDeletesTheDead ==
    [][SweepStep
        => /\ DOMAIN links \ DOMAIN links' = DeadRows(links, now)
           /\ \A id \in DOMAIN links' : links'[id] = links[id]
           /\ last'.n = Cardinality(DeadRows(links, now))
      ]_vars

\* C16: a second sweep run directly after a first one, at the same clock and
\* with nothing in between, deletes nothing, returns 0 and leaves the table as
\* the first run left it.
C16_SweepTwice ==
    [][SweepStep
        => LET second == cleanupExpired(links', now')
           IN  /\ second = links'
               /\ Cardinality(DOMAIN links' \ DOMAIN second) = 0
      ]_vars

\* C16 witness: a sweep has deleted one record and left another, which has a
\* view left.
C16_Witness ==
    /\ last.op = "sweep" /\ last.n = 1
    /\ \E id \in DOMAIN links : links[id].views_remaining > 0

\* C17: with the sweep interleaved among concurrent requests, the sweep
\* deletes no record that is live at that moment, a consume is answered Gone
\* only for a record that is dead or absent, and the consumes answered with the
\* ciphertext of a record never exceed its views_total.
C17_SweepAmongRequests ==
    [][ /\ SweepStep
              => \A id \in DOMAIN links \ DOMAIN links' : isDead(links[id], now)
        /\ \A r \in ConcReqs :
              (Answers(r) /\ last'.op = "consume" /\ last'.status # 200
                          /\ last'.id \in DOMAIN links /\ last'.id \notin removed)
                 => isDead(links[last'.id], now)
        /\ \A id \in Ids :
              (id \in DOMAIN links' /\ id \notin removed'
                                    /\ links'[id].views_total >= 1)
                 => served'[id] <= links'[id].views_total
      ]_vars

\* C18: a request during which the store fails is answered with an error
\* that is neither not found, nor expired or burned, nor a success: it carries
\* no ciphertext and no id of a new link, and the table is as it was.
C18_StoreFailureIsAnError ==
    [][\A r \in ConcReqs :
        (req[r].pc # "threw" /\ req'[r].pc = "threw")
            => /\ last'.status \notin {200, 404, 410}
               /\ last'.status >= 400
               /\ last'.ciphertext = <<>>
               /\ last'.op = "create" => last'.id = ""
               /\ links' = links
      ]_vars

\* C18 witness: the store failed during a consume of a record that has a view
\* left.
C18_Witness ==
    /\ \E r \in ConcReqs : req[r].pc = "threw" /\ req[r].id = last.id
    /\ last.op = "consume" /\ last.status = 500
    /\ last.id \in DOMAIN links /\ links[last.id].views_remaining > 0

\* the record of id was consumed once and has been neither swept nor deleted
AfterBurn(id) == id \notin removed /\ served[id] = 1

\* C20 as claimed: after a record created with views = 1 was burned by its one
\* successful consume, and before any sweep or delete, a status query still
\* finds the record and returns views_remaining = 1.
C20_StatusAfterBurnIsOne ==
    [][(StatusStep /\ AfterBurn(last'.id))
        => /\ last'.id \in DOMAIN links
           /\ links[last'.id].views_total = 1
                 => (last'.status = 200 /\ last'.views_remaining = 1)
      ]_vars

\* C20 as amended: the status query still finds the record and returns the
\* stored counter, which the burn has decremented: views_remaining = 0 when the
\* query follows the burn, and never more than 0.
C20_StatusAfterBurnIsZero ==
    [][(StatusStep /\ AfterBurn(last'.id))
        => /\ last'.id \in DOMAIN links
           /\ links[last'.id].views_total = 1
                 => /\ last'.status = 200
                    /\ last'.views_total = 1
                    /\ last'.views_remaining = links[last'.id].views_remaining
                    /\ last'.views_remaining <= 0
                    /\ (last.op = "consume" /\ last.status = 200 /\ last.id = last'.id)
                          => last'.views_remaining = 0
      ]_vars

\* C20 witness: the status of a burned record of one view has been answered
\* with views_remaining = 0.
C20_Witness ==
    /\ last.op = "status" /\ last.status = 200
    /\ AfterBurn(last.id)
    /\ last.views_total = 1 /\ last.views_remaining = 0

\* the latest answer is Expired, to a consume on id
ExpiredAnswer(id) == last.op = "consume" /\ last.id = id /\ last.status = 410

\* C21: once a consume on a record has been answered Expired, no consume sent
\* after that answer is answered with the ciphertext of that record, whatever
\* consume, status, sweep and delete requests follow and however they
\* interleave.
C21_ExpiredStaysExpired ==
    [][\A r \in SeqReqs :
        (Answers(r) /\ last'.op = "consume" /\ last'.status = 200
                    /\ last'.id \notin removed)
            => last'.id \notin gone
      ]_vars

\* C21 witness: a record with a view left was answered Expired, its TTL over,
\* and a second consume on it was answered Expired again.
C21_Witness ==
    /\ ExpiredAnswer(last.id) /\ last.id \in gone /\ last.id \notin removed
    /\ last.id \in DOMAIN links
    /\ links[last.id].views_total = 2 /\ links[last.id].views_remaining = 0
    /\ served[last.id] = 0

\* a row but for its counter of views left
Fixed(row) == [row EXCEPT !.views_remaining = 0]

\* a step in which a consume or a status query is answered from a row
ReadStep == last'.op \in {"consume", "status"} /\ last'.status = 200 /\ now' = now

\* C25: no step changes a record's ciphertext, views_total, ttl_seconds,
\* created_at or password_protected; a step that changes its views_remaining
\* is a consume on its id; the record keeps the password_protected given at
\* create, and consume and status answer with it.
C25_OnlyViewsRemainingMoves ==
    [][ /\ \A id \in DOMAIN links \cap DOMAIN links' :
              /\ Fixed(links'[id]) = Fixed(links[id])
              /\ links'[id].views_remaining # links[id].views_remaining
                    => last'.op = "consume" /\ last'.id = id
        /\ (CreateStep /\ last'.status = 200) =>
              links'[last'.id].password_protected
                  = Field(sent'.body, "password_protected", FALSE)
        /\ ReadStep => last'.password_protected = links[last'.id].password_protected
      ]_vars

\* C25 witness: a protected record created with two views has been consumed
\* once and answered as protected.
C25_Witness ==
    /\ last.op = "consume" /\ last.status = 200 /\ last.password_protected
    /\ last.id \in DOMAIN links /\ last.id \notin removed
    /\ links[last.id].views_total = 2 /\ links[last.id].views_remaining = 1
    /\ links[last.id].password_protected /\ links[last.id].content = Ct2

\* C26: no step raises a record's views_remaining, and a record that is dead
\* (out of views, or past its TTL) before a step is dead after it, if it is
\* still there.
C26_BurnIsIrreversible ==
    [][\A id \in DOMAIN links \cap DOMAIN links' :
          /\ links'[id].views_remaining <= links[id].views_remaining
          /\ isDead(links[id], now) => isDead(links'[id], now')
      ]_vars

\* C26 witness: a record created with one view was consumed, then refused, and
\* is still in the table, inside its TTL.
C26_Witness ==
    /\ last.op = "consume" /\ last.status = 410
    /\ last.id \in DOMAIN links /\ last.id \notin removed
    /\ served[last.id] = 1
    /\ links[last.id].views_total = 1 /\ links[last.id].views_remaining = -1
    /\ now <= ExpiresAt(links[last.id])

HasCiphertext(body) ==
    Field(body, "ciphertext", <<>>) # <<>> \/ Field(body, "content", <<>>) # <<>>

\* C28: a create leaves every record of the table as it was; one that draws
\* the id of a record in the table (as it must when every id is taken) fails
\* with a storage error and inserts nothing, and no create fails so otherwise.
C28_CollisionKeepsTheRecord ==
    [][CreateStep =>
          /\ \A id \in DOMAIN links : id \in DOMAIN links' /\ links'[id] = links[id]
          /\ (DOMAIN links = Ids /\ HasCiphertext(sent'.body))
                => (last'.status = 500 /\ links' = links)
          /\ last'.status = 500 => (links' = links /\ links # <<>>)
          /\ last'.status = 200 => last'.id \notin DOMAIN links
      ]_vars

\* C28 witness: a create has failed on the id of a record that had been
\* consumed once of twice, and the record is as it was.
C28_Witness ==
    /\ last.op = "create" /\ last.status = 500
    /\ \E id \in DOMAIN links :
          /\ links[id].views_total = 2 /\ links[id].views_remaining = 1
          /\ links[id].content = Ct2 /\ served[id] = 1 /\ id \notin removed

\* a step in which handler r meets a rejection of the UPDATE, the row in hand
BurnThrows(r) ==
    /\ req[r].pc # "threw" /\ req'[r].pc = "threw"
    /\ last'.op = "consume" /\ req'[r].link # NoRow

\* C29: a consume whose decrement the store rejects is answered without the
\* ciphertext and counts as no view; a consume answered with the ciphertext
\* has decremented the counter of its record.
C29_ChargedBeforeServed ==
    [][\A r \in ConcReqs :
          /\ BurnThrows(r) =>
                /\ last'.ciphertext = <<>> /\ last'.status # 200
                /\ served' = served /\ links' = links
          /\ (Answers(r) /\ last'.op = "consume" /\ last'.status = 200) =>
                /\ last'.id \in DOMAIN links'
                /\ links'[last'.id].views_remaining
                      = links[last'.id].views_remaining - 1
                /\ last'.ciphertext = links[last'.id].content
      ]_vars

\* C29 witness: the decrement was rejected in a consume of a record that has
\* a view left, inside its TTL, and the caller got a server error.
C29_Witness ==
    /\ last.op = "consume" /\ last.status = 500 /\ last.ciphertext = <<>>
    /\ \E r \in ConcReqs :
          /\ req[r].pc = "threw" /\ req[r].id = last.id
          /\ req[r].link.content = Ct1 /\ ~isDead(req[r].link, now)
    /\ last.id \in DOMAIN links /\ links[last.id].views_remaining = 1

\* views_total - views_remaining, as `vanish status` prints it
UsedViews(row) == row.views_total - row.views_remaining

\* C30: for every record in the table, views_total - views_remaining is the
\* number of consumes on its id that were answered with the ciphertext;
\* consumes answered Expired or NotFound leave it as it is.
C30_UsedViewsAreServed ==
    \A id \in DOMAIN links : FirstLife(id) => UsedViews(links[id]) = served[id]

\* (C30 for the records no consume on which was answered Expired)
UsedViewsUntilExpired ==
    \A id \in DOMAIN links :
        (FirstLife(id) /\ id \notin gone) => UsedViews(links[id]) = served[id]

(***************************************************************************)
(* Properties of the encryption engine.                                    *)
(***************************************************************************)
\* C7: decrypting what encrypt returned, with its key and the same password
\* (present or absent), gives back the plaintext.
C7_RoundTrip ==
    (cr.pc = "decrypted" /\ cr.pw1 = cr.pw2) => (cr.out.ok /\ cr.out.text = cr.p)

\* C8 as claimed: decrypting with a password value other than the one given to
\* encrypt fails and yields no plaintext, the empty string and the absent
\* password counted as two values.
C8_OtherPasswordFails ==
    (cr.pc = "decrypted" /\ cr.pw1 # cr.pw2) => (~cr.out.ok /\ cr.out.text = <<>>)

\* the password as both functions read it: an empty string is no password,
\* and a string is read through its UTF-8 encoding
Effective(password) ==
    IF Truthy(password) THEN Password(TextEncode(password.text)) ELSE NoPassword

\* C8 as amended: decrypting fails and yields no plaintext whenever the two
\* passwords differ as the functions read them, that is once an empty string is
\* taken as an absent password and a string as its UTF-8 encoding.
C8_OtherEffectivePasswordFails ==
    (cr.pc = "decrypted" /\ Effective(cr.pw1) # Effective(cr.pw2))
        => (~cr.out.ok /\ cr.out.text = <<>>)

\* C8 witness: a text encrypted under one password and refused under another,
\* both present.
C8_Witness ==
    /\ cr.pc = "decrypted"
    /\ Truthy(cr.pw1) /\ Truthy(cr.pw2) /\ cr.pw1 # cr.pw2
    /\ cr.p # <<>>
    /\ ~cr.out.ok

\* C19: every failure of decrypt - wrong key, wrong or missing password,
\* corrupted or truncated ciphertext, malformed base64, key of the wrong
\* length - is reported by one and the same error kind, the one a wrong
\* password gives.
C19_OneFailureKind ==
    (cr.pc \in {"decrypted", "tampered"} /\ ~cr.out.ok)
        => cr.out.err = "OperationError"

(***************************************************************************)
(* Properties of the token generator.                                      *)
(***************************************************************************)
\* the source bytes for which a one-character token is the character c
Selects(c) == {b \in 0..255 : generateId(<<1>>, <<b>>) = <<c>>}

Alphabet == {CHARS[i] : i \in DOMAIN CHARS}

\* the token returned has the length asked for, 12 when none was given
TokenLength ==
    gen.pc = "returned" =>
        Len(gen.id) = (IF gen.args = <<>> THEN 12 ELSE gen.args[1])

\* every character of the token returned is one that as many source bytes
\* select as any other character of the alphabet
UniformChars ==
    gen.pc = "returned" =>
        \A i \in 1..Len(gen.id) : \A c \in Alphabet :
            Cardinality(Selects(gen.id[i])) = Cardinality(Selects(c))

\* C22: generateId(length) returns a token of exactly length characters (12
\* when no length is given) each of which is drawn uniformly from the 62
\* characters of the alphabet: over a uniformly random source byte in 0..255
\* every character is selected with the same probability.
C22_UniformToken == TokenLength /\ UniformChars

(***************************************************************************)
(* Properties of the clients.                                              *)
(***************************************************************************)
\* C6: one redemption attempt sends the consume request at most once, as its
\* first step; a password try sends no request and leaves the table alone.
C6_OneConsumePerAttempt ==
    [][ /\ cl'.calls <= 1
        /\ (cl' # cl /\ sent'.route = "consume")
              => (cl'.calls = 1 /\ cl'.pc = "loading" /\ cl'.tries = 0)
        /\ (cl.pc \in {"password", "prompt"} /\ cl'.tries > cl.tries)
              => (cl'.calls = cl.calls /\ sent' = NoSent /\ links' = links)
      ]_vars

\* C6 witness: the viewer shows the text after a wrong password and the right
\* one, having sent one consume request.
C6_Witness ==
    /\ cl.kind = "viewer" /\ cl.pc = "content"
    /\ cl.tries = 2 /\ cl.calls = 1
    /\ cl.out = share.plaintext

\* the states of a redemption attempt: the viewer's password prompt, the
\* prompt of `vanish read` or its exit for want of a password; the text shown
\* or printed; a decryption that failed
PasswordRequired(c) ==
    \/ c.pc \in {"password", "prompt"}
    \/ c.pc = "exit" /\ c.msg = "This link is password-protected."

Revealed(c) == c.pc \in {"content", "printed"}

DecryptionFailed(c) ==
    \/ c.pc = "password" /\ c.msg = "Wrong password. Try again."
    \/ c.pc = "error" /\ c.msg = "Decryption failed. Wrong key or corrupted data."
    \/ c.pc = "exit" /\ c.msg \in {"InvalidCharacterError", "DataError", "OperationError"}

\* a step in which the reading client learns how its consume request ended
FetchEnds == cl.pc = "loading" /\ cl'.pc # "loading"

\* the outcome of decrypting the ciphertext c holds under password pw, as the
\* client d shows it
Decrypted(c, d, pw) ==
    LET key == IF c.kind = "viewer" THEN c.key ELSE argKey(c)
        plaintext == IF c.kind = "viewer"
                     THEN vanishDecrypt(c.data.ciphertext, key, pw)
                     ELSE e2eDecrypt(c.data.ciphertext, key, pw)
    IN  IF plaintext.ok THEN Revealed(d) /\ d.out = plaintext.text
        ELSE DecryptionFailed(d) /\ d.out = <<>>

\* C23: a redemption attempt is at PasswordRequired after its fetch exactly
\* when the consume response has password_protected set and no password was
\* supplied (a password the environment holds is supplied there and then); at
\* PasswordRequired nothing has been decrypted; a password supplied there is
\* tried on the ciphertext already retrieved, without a request, and the try
\* ends in Revealed or DecryptionFailed.
C23_PasswordRequired ==
    [][ /\ (FetchEnds /\ cl'.data.ciphertext # <<>>) =>
              IF cl'.data.password_protected /\ ~Truthy(cl.pw)
              THEN \/ PasswordRequired(cl') /\ cl'.tries = 0 /\ cl'.out = <<>>
                   \/ /\ cl.kind = "cli" /\ Truthy(cl'.pw) /\ cl'.tries = 1
                      /\ Decrypted(cl', cl', cl'.pw)
              ELSE ~PasswordRequired(cl')
        /\ (FetchEnds /\ cl'.data.ciphertext = <<>>) => ~PasswordRequired(cl')
        /\ (cl.pc \in {"password", "prompt"} /\ cl'.tries = cl.tries + 1) =>
              /\ cl'.data = cl.data /\ cl'.calls = cl.calls /\ sent' = NoSent
              /\ links' = links
              /\ \E pw \in {<<>>, PwP, PwQ} : Decrypted(cl, cl', Password(pw))
      ]_vars

\* C23 witness: the viewer shows the text of a protected link after its prompt
\* took the password.
C23_Witness ==
    /\ cl.kind = "viewer" /\ cl.pc = "content" /\ cl.data.password_protected
    /\ cl.tries = 1 /\ cl.calls = 1 /\ cl.out = share.plaintext

\* the link is shown as burned or gone; the failure shown is one of the fetch
Gone(c) ==
    \/ c.pc = "burned"
    \/ c.pc = "exit" /\ c.msg \in {"not found or already burned", "expired or burned"}

TransportError(c) ==
    \/ c.pc = "error" /\ c.msg = "Failed to retrieve link."
    \/ c.pc = "exit" /\ c.msg \in {"fetch failed", "HTTP 500"}

\* the consume request of the attempt was rejected, or answered with a status
\* that is neither success nor 404 nor 410
TransportFailed(c) == c.res = Rejected \/ c.res \notin {NoRes, 200, 404, 410}

\* C24: a redemption attempt whose consume request throws, or is answered with
\* a status other than success, 404 and 410, ends in TransportError and is
\* shown neither as DecryptionFailed nor as Gone; one answered 404 or 410 ends
\* in Gone.
C24_TransportErrorKept ==
    /\ TransportFailed(cl) =>
          TransportError(cl) /\ ~DecryptionFailed(cl) /\ ~Gone(cl)
    /\ cl.res \in {404, 410} => Gone(cl)

\* (C24 but for the viewer page whose fetch was rejected)
TransportErrorButViewerRejected ==
    /\ (TransportFailed(cl) /\ ~(cl.kind = "viewer" /\ cl.res = Rejected)) =>
          TransportError(cl) /\ ~DecryptionFailed(cl) /\ ~Gone(cl)
    /\ cl.res \in {404, 410} => Gone(cl)

\* C31: a redemption attempt that holds no decryption key (its link or id has
\* no fragment) sends no consume request, in the viewer page and in `vanish
\* read` alike.
C31_NoKeyNoConsume == cl.key = <<>> => cl.calls = 0

\* (C31 for the viewer page alone)
ViewerNoKeyNoConsume == (cl.kind = "viewer" /\ cl.key = <<>>) => cl.calls = 0

\* C32: the fetch of a protected link's ciphertext lowers the record's
\* views_remaining by one and changes nothing else in the table, whatever
\* password the reader holds or goes on to give; a password tried afterwards,
\* right or wrong, changes no record.
C32_ViewSpentAtFetch ==
    [][ /\ (FetchEnds /\ cl'.res = 200 /\ cl'.data.password_protected) =>
              /\ cl.id \in DOMAIN links /\ DOMAIN links' = DOMAIN links
              /\ links' = [links EXCEPT ![cl.id].views_remaining = @ - 1]
              /\ cl'.data.views_remaining = links'[cl.id].views_remaining
        /\ (cl.pc \in {"password", "prompt"} /\ cl'.tries > cl.tries) =>
              links' = links
      ]_vars

\* C32 witness: the viewer's prompt has refused two passwords on a link created
\* with two views, one of which is spent.
C32_Witness ==
    /\ cl.kind = "viewer" /\ cl.pc = "password" /\ cl.tries = 2
    /\ cl.msg = "Wrong password. Try again." /\ cl.out = <<>>
    /\ cl.id \in DOMAIN links /\ links[cl.id].password_protected
    /\ links[cl.id].views_total = 2 /\ links[cl.id].views_remaining = 1

Contains(hay, needle) ==
    /\ needle # <<>>
    /\ \E i \in 1..(Len(hay) - Len(needle) + 1) :
          SubSeq(hay, i, i + Len(needle) - 1) = needle

RequestFields == {"ciphertext", "views", "ttl_seconds", "password_protected"}

====
